---- MODULE Spec2Model ----
(***************************************************************************)
(* The setuid launcher tor-arm-replace-torrc (override.c): a process that  *)
(* is started by the operating system under the permission bits of the     *)
(* launcher file, and whose main() makes one execve call on a fixed path   *)
(* with a null argument vector and a null environment, returning the       *)
(* call's result when the call comes back.                                 *)
(*                                                                         *)
(* Several invocations run side by side on one machine: they share the     *)
(* filesystem (the state of the target file, the files written) and the    *)
(* kernel, and differ in the invoking user, the command line and the       *)
(* environment.                                                            *)
(***************************************************************************)
EXTENDS Integers, Sequences, FiniteSets, TLC

VARIABLES
    fs,          \* state of the target file on the shared filesystem
    kernel,      \* which GNU/Linux exec behaviour the machine has
    files,       \* files written on the shared filesystem
    pc,          \* per invocation: position of the process
    image,       \* per invocation: path of the program the process runs
    user,        \* per invocation: the invoking user
    args,        \* per invocation: command line given by the invoker
    env,         \* per invocation: environment given by the invoker
    cred,        \* per invocation: real/effective uid and gid of the process
    execLog,     \* per invocation: the execve calls the launcher made
    ret,         \* per invocation: value execve returned to main
    targetArgv,  \* per invocation: argument vector the new image received
    targetEnvp,  \* per invocation: environment the new image received
    status,      \* per invocation: exit status the invoker observes
    streams      \* per invocation: what was written to stdout/stderr

vars == <<fs, kernel, files, pc, image, user, args, env, cred, execLog, ret,
          targetArgv, targetEnvp, status, streams>>

(***************************************************************************)
(* Bounds of the model.                                                    *)
(***************************************************************************)
\* the target program exits with a status in 0..MaxTargetStatus
MaxTargetStatus == 1

\* the invocations running side by side
Procs == {"p1", "p2"}

(***************************************************************************)
(* The installation the header comment documents.                          *)
(***************************************************************************)
\* path of the launcher binary itself
LauncherPath == "/usr/bin/tor-arm-replace-torrc"

\* the macro of tor-arm-replace-torrc.h: the path of the target program
TOR_ARM_REPLACE_TORRC == "/usr/bin/tor-arm-replace-torrc.py"

\* another program on the machine, which an invoker may try to have run
OtherProgram == "/bin/sh"

\* chown root:debian-arm
FileOwner == "root"
FileGroup == "debian-arm"

\* chmod 04755: the launcher installed executable by everyone
InstalledMode_worldExec ==
    [setuid |-> TRUE, setgid |-> FALSE,
     owner |-> {"r", "w", "x"}, group |-> {"r", "x"}, other |-> {"r", "x"}]

\* chmod 04750 with its digits turned into permission bits
InstalledMode ==
    [setuid |-> TRUE, setgid |-> FALSE,
     owner |-> {"r", "w", "x"}, group |-> {"r", "x"}, other |-> {}]

\* the users of the machine, their primary group and supplementary groups
Users == {"root", "alice", "bob"}

PrimaryGroup(u) == u

Groups(u) == IF u = "alice" THEN {"alice", FileGroup} ELSE {u}

\* the permission class the OS picks for user u on the launcher file
PermClass(u) ==
    IF u = FileOwner THEN "owner"
    ELSE IF FileGroup \in Groups(u) THEN "group"
    ELSE "other"

\* whether the OS lets u execute the launcher file
MayExecute(u) == "x" \in InstalledMode[PermClass(u)]

\* the identity the OS gives the launcher process started by u
OSAssign(u) ==
    [ruid |-> u,
     euid |-> IF InstalledMode.setuid THEN FileOwner ELSE u,
     rgid |-> PrimaryGroup(u),
     egid |-> IF InstalledMode.setgid THEN FileGroup ELSE PrimaryGroup(u)]

NoCred == [ruid |-> "none", euid |-> "none", rgid |-> "none", egid |-> "none"]

(***************************************************************************)
(* Inputs of an invocation.                                                *)
(***************************************************************************)
ArgChoices ==
    { <<>>,
      <<"tor-arm-replace-torrc">>,
      <<"tor-arm-replace-torrc", OtherProgram>> }

EnvChoices ==
    { <<>>,
      <<[name |-> "TOR_ARM_REPLACE_TORRC", value |-> OtherProgram]>> }

\* the state of the target file
TargetStates == {"ok", "missing", "noexec", "denied"}

\* The launcher is written for GNU/Linux, where execve takes a null argv
\* and a null envp as empty lists. What the new image then receives as its
\* argument vector depends on the kernel: before Linux 5.18 no element at
\* all (argc = 0), from 5.18 on the single element "" (argc = 1).
Kernels == {"linux_pre_5_18", "linux_5_18"}

(***************************************************************************)
(* execve's pointer arguments.                                             *)
(***************************************************************************)
NULL == [isNull |-> TRUE, vec |-> <<>>]

Ptr(v) == [isNull |-> FALSE, vec |-> v]

\* the argument vector the kernel hands the new image
KernelArgv(a) ==
    IF a.isNull \/ a.vec = <<>>
    THEN IF kernel = "linux_5_18" THEN <<"">> ELSE <<>>
    ELSE a.vec

\* the environment the kernel hands the new image
KernelEnvp(e) == IF e.isNull THEN <<>> ELSE e.vec

\* what the kernel finds at a path
Lookup(path) ==
    IF path = TOR_ARM_REPLACE_TORRC THEN fs
    ELSE IF path = OtherProgram THEN "ok"
    ELSE "missing"

NoStatus == -1

(***************************************************************************)
(* Init: the machine is installed, no invocation has been made.            *)
(***************************************************************************)
Init ==
    /\ fs \in TargetStates
    /\ kernel \in Kernels
    /\ files = {}
    /\ pc = [p \in Procs |-> "idle"]
    /\ image = [p \in Procs |-> "none"]
    /\ user = [p \in Procs |-> "none"]
    /\ args = [p \in Procs |-> <<>>]
    /\ env = [p \in Procs |-> <<>>]
    /\ cred = [p \in Procs |-> NoCred]
    /\ execLog = [p \in Procs |-> <<>>]
    /\ ret = [p \in Procs |-> 0]
    /\ targetArgv = [p \in Procs |-> <<>>]
    /\ targetEnvp = [p \in Procs |-> <<>>]
    /\ status = [p \in Procs |-> NoStatus]
    /\ streams = [p \in Procs |-> <<>>]

(***************************************************************************)
(* Invoke: user u runs the launcher with command line a and environment e. *)
(* The OS checks the file's permission bits; on success the process starts *)
(* main() with the identity the setuid bit gives it.                       *)
(***************************************************************************)
Invoke(p, u, a, e) ==
    /\ pc[p] = "idle"
    /\ user' = [user EXCEPT ![p] = u]
    /\ args' = [args EXCEPT ![p] = a]
    /\ env' = [env EXCEPT ![p] = e]
    /\ IF MayExecute(u)
       THEN /\ pc' = [pc EXCEPT ![p] = "main"]
            /\ image' = [image EXCEPT ![p] = LauncherPath]
            /\ cred' = [cred EXCEPT ![p] = OSAssign(u)]
       ELSE /\ pc' = [pc EXCEPT ![p] = "rejected"]
            /\ UNCHANGED <<image, cred>>
    /\ UNCHANGED <<fs, kernel, files, execLog, ret, targetArgv, targetEnvp,
                   status, streams>>

(***************************************************************************)
(* execve(path, argv, envp) called by process p: on success the image of   *)
(* the same process is replaced and the call does not come back; on        *)
(* failure it returns -1.                                                  *)
(***************************************************************************)
execve(p, path, argv, envp) ==
    /\ execLog' = [execLog EXCEPT
                     ![p] = Append(@, [path |-> path, argv |-> argv, envp |-> envp])]
    /\ IF Lookup(path) = "ok"
       THEN /\ image' = [image EXCEPT ![p] = path]
            /\ pc' = [pc EXCEPT ![p] = "target"]
            /\ targetArgv' = [targetArgv EXCEPT ![p] = KernelArgv(argv)]
            /\ targetEnvp' = [targetEnvp EXCEPT ![p] = KernelEnvp(envp)]
            /\ UNCHANGED ret
       ELSE /\ ret' = [ret EXCEPT ![p] = -1]
            /\ pc' = [pc EXCEPT ![p] = "ret"]
            /\ UNCHANGED <<image, targetArgv, targetEnvp>>

\* the value of variable n in the invoker's environment, else d
GetEnv(p, n, d) ==
    IF \E i \in DOMAIN env[p] : env[p][i].name = n
    THEN env[p][CHOOSE i \in DOMAIN env[p] : env[p][i].name = n].value
    ELSE d

\* a launcher whose target path can be overridden from the environment
main_execve_envPath(p) ==
    /\ pc[p] = "main"
    /\ execve(p, GetEnv(p, "TOR_ARM_REPLACE_TORRC", TOR_ARM_REPLACE_TORRC), NULL, NULL)
    /\ UNCHANGED <<fs, kernel, files, user, args, env, cred, status, streams>>

\* a launcher that forwards its own argument vector to the target
main_execve_forwardArgs(p) ==
    /\ pc[p] = "main"
    /\ execve(p, TOR_ARM_REPLACE_TORRC, Ptr(args[p]), NULL)
    /\ UNCHANGED <<fs, kernel, files, user, args, env, cred, status, streams>>

\* a launcher that forwards its environment to the target
main_execve_forwardEnv(p) ==
    /\ pc[p] = "main"
    /\ execve(p, TOR_ARM_REPLACE_TORRC, NULL, Ptr(env[p]))
    /\ UNCHANGED <<fs, kernel, files, user, args, env, cred, status, streams>>

\* a launcher that runs the target as a child process (system, fork and
\* exec) and goes on itself with the child's result
main_execve_child(p) ==
    /\ pc[p] = "main"
    /\ execLog' = [execLog EXCEPT
                     ![p] = Append(@, [path |-> TOR_ARM_REPLACE_TORRC,
                                       argv |-> NULL, envp |-> NULL])]
    /\ ret' = [ret EXCEPT ![p] = IF Lookup(TOR_ARM_REPLACE_TORRC) = "ok" THEN 0 ELSE -1]
    /\ pc' = [pc EXCEPT ![p] = "ret"]
    /\ UNCHANGED <<fs, kernel, files, image, user, args, env, cred,
                   targetArgv, targetEnvp, status, streams>>

\* a launcher that gives up the set-user-ID identity before the call
main_execve_dropPriv(p) ==
    /\ pc[p] = "main"
    /\ execve(p, TOR_ARM_REPLACE_TORRC, NULL, NULL)
    /\ cred' = [cred EXCEPT ![p].euid = cred[p].ruid]
    /\ UNCHANGED <<fs, kernel, files, user, args, env, status, streams>>

(***************************************************************************)
(* main, first half: the call execve(TOR_ARM_REPLACE_TORRC, NULL, NULL).   *)
(***************************************************************************)
main_execve(p) ==
    /\ pc[p] = "main"
    /\ execve(p, TOR_ARM_REPLACE_TORRC, NULL, NULL)
    /\ UNCHANGED <<fs, kernel, files, user, args, env, cred, status, streams>>

\* the exit status the invoker sees for a value returned from main
ExitStatus(r) == r % 256

\* a launcher that ends with "return 0" after the execve call
main_return_zero(p) ==
    /\ pc[p] = "ret"
    /\ status' = [status EXCEPT ![p] = ExitStatus(0)]
    /\ pc' = [pc EXCEPT ![p] = "exited"]
    /\ UNCHANGED <<fs, kernel, files, image, user, args, env, cred, execLog,
                   ret, targetArgv, targetEnvp, streams>>

\* a launcher that reports the failure with perror before returning
main_return_perror(p) ==
    /\ pc[p] = "ret"
    /\ streams' = [streams EXCEPT ![p] = Append(@, "execve: error")]
    /\ status' = [status EXCEPT ![p] = ExitStatus(ret[p])]
    /\ pc' = [pc EXCEPT ![p] = "exited"]
    /\ UNCHANGED <<fs, kernel, files, image, user, args, env, cred, execLog,
                   ret, targetArgv, targetEnvp>>

\* a launcher that tries the call a second time before giving up
main_return_retry(p) ==
    /\ pc[p] = "ret"
    /\ IF Len(execLog[p]) < 2
       THEN /\ pc' = [pc EXCEPT ![p] = "main"]
            /\ UNCHANGED status
       ELSE /\ pc' = [pc EXCEPT ![p] = "exited"]
            /\ status' = [status EXCEPT ![p] = ExitStatus(ret[p])]
    /\ UNCHANGED <<fs, kernel, files, image, user, args, env, cred, execLog,
                   ret, targetArgv, targetEnvp, streams>>

\* a launcher that, the call having failed, waits for the target to appear
\* and then calls again
main_return_wait(p) ==
    /\ pc[p] = "ret"
    /\ Lookup(TOR_ARM_REPLACE_TORRC) = "ok"
    /\ pc' = [pc EXCEPT ![p] = "main"]
    /\ UNCHANGED <<fs, kernel, files, image, user, args, env, cred, execLog,
                   ret, targetArgv, targetEnvp, status, streams>>

(***************************************************************************)
(* main, second half: execve came back, main returns its value.            *)
(***************************************************************************)
main_return(p) ==
    /\ pc[p] = "ret"
    /\ status' = [status EXCEPT ![p] = ExitStatus(ret[p])]
    /\ pc' = [pc EXCEPT ![p] = "exited"]
    /\ UNCHANGED <<fs, kernel, files, image, user, args, env, cred, execLog,
                   ret, targetArgv, targetEnvp, streams>>

(***************************************************************************)
(* The target program: it does its work under the identity it was started  *)
(* with (writing a file, printing a line) and exits with its own status.   *)
(***************************************************************************)
Target(p, s) ==
    /\ pc[p] = "target"
    /\ files' = files \cup {[by |-> p, program |-> image[p], owner |-> cred[p].euid]}
    /\ streams' = [streams EXCEPT ![p] = Append(@, "torrc replaced")]
    /\ status' = [status EXCEPT ![p] = s]
    /\ pc' = [pc EXCEPT ![p] = "exited"]
    /\ UNCHANGED <<fs, kernel, image, user, args, env, cred, execLog, ret,
                   targetArgv, targetEnvp>>

Next ==
    \/ \E p \in Procs, u \in Users, a \in ArgChoices, e \in EnvChoices :
          Invoke(p, u, a, e)
    \/ \E p \in Procs : main_execve(p)
    \/ \E p \in Procs : main_return(p)
    \/ \E p \in Procs, s \in 0..MaxTargetStatus : Target(p, s)

Spec == Init /\ [][Next]_vars

\* the scheduler runs every process that is ready to run
FairSpec ==
    /\ Spec
    /\ \A p \in Procs : WF_vars(main_execve(p)) /\ WF_vars(main_return(p))

(***************************************************************************)
(* Helpers of the properties.                                              *)
(***************************************************************************)
\* p has made its execve call
Called(p) == execLog[p] # <<>>

\* p was replaced by another program
Replaced(p) == image[p] \notin {"none", LauncherPath}

\* p ended as the launcher: main returned
LauncherExited(p) == pc[p] = "exited" /\ image[p] = LauncherPath

\* the elements of a sequence
Range(q) == {q[i] : i \in DOMAIN q}

(***************************************************************************)
(* C1: whatever the command line, the environment and the invoking user of *)
(* two invocations are, every execve call either of them makes names the   *)
(* path TOR_ARM_REPLACE_TORRC, and no process ever runs a program other    *)
(* than the launcher and that target.                                      *)
(***************************************************************************)
C1_FixedExecTarget ==
    /\ \A p, q \in Procs :
          \A i \in DOMAIN execLog[p], j \in DOMAIN execLog[q] :
             /\ execLog[p][i].path = TOR_ARM_REPLACE_TORRC
             /\ execLog[p][i].path = execLog[q][j].path
    /\ \A p \in Procs : image[p] \in {"none", LauncherPath, TOR_ARM_REPLACE_TORRC}

\* two invocations that differ in arguments, environment and user both called execve
C1_Witness ==
    /\ Called("p1") /\ Called("p2")
    /\ args["p1"] # args["p2"]
    /\ env["p1"] # env["p2"]
    /\ user["p1"] # user["p2"]
    /\ \E p \in Procs : GetEnv(p, "TOR_ARM_REPLACE_TORRC", "unset") = OtherProgram

(***************************************************************************)
(* C2: two invocations with any command lines make the same execve call    *)
(* and, the filesystem being the same, have the same outcome of that call; *)
(* no word of the command line reaches the target.                         *)
(***************************************************************************)
C2_ArgumentsIgnored ==
    /\ \A p, q \in Procs :
          (Called(p) /\ Called(q)) =>
             /\ execLog[p] = execLog[q]
             /\ Replaced(p) = Replaced(q)
             /\ ret[p] = ret[q]
             /\ (LauncherExited(p) /\ LauncherExited(q)) => status[p] = status[q]
    /\ \A p \in Procs : Range(targetArgv[p]) \cap Range(args[p]) = {}

\* one invocation without and one with command-line arguments, both past execve
C2_Witness ==
    \E p, q \in Procs :
       /\ Called(p) /\ Called(q)
       /\ args[p] = <<>>
       /\ Len(args[q]) = 2
       /\ pc[p] = "exited" /\ pc[q] = "exited"

C4_FailedExecNonZero ==
    \A p \in Procs :
       /\ (Called(p) /\ fs # "ok") => (pc[p] \in {"ret", "exited"} /\ ret[p] = -1)
       /\ (pc[p] = "exited" /\ ret[p] = -1) => status[p] \in 1..255

\* a launcher that ended after a failed execve
C4_Witness ==
    \E p \in Procs :
       /\ fs \in {"missing", "noexec", "denied"}
       /\ LauncherExited(p)
       /\ status[p] = 255

(***************************************************************************)
(* C5: when the target exists and is executable, the execve call replaces  *)
(* the image of the calling process by the target; the call never comes    *)
(* back, so the launcher runs no further step and never exits itself, and  *)
(* the status the invoker observes is set by the target program.           *)
(***************************************************************************)
C5_ImageReplaced ==
    /\ [](\A p \in Procs :
            /\ (Called(p) /\ fs = "ok") => image[p] = TOR_ARM_REPLACE_TORRC
            /\ Replaced(p) => (ret[p] = 0 /\ Len(execLog[p]) = 1)
            /\ fs = "ok" => ~LauncherExited(p))
    /\ [][\A p \in Procs :
            /\ Replaced(p) =>
                  /\ image'[p] = image[p]
                  /\ execLog'[p] = execLog[p]
                  /\ ret'[p] = ret[p]
            /\ (fs = "ok" /\ status'[p] # status[p]) =>
                  /\ pc[p] = "target" /\ image[p] = TOR_ARM_REPLACE_TORRC
                  /\ status'[p] \in 0..MaxTargetStatus]_vars

\* a process that became the target and whose exit status is the target's
C5_Witness ==
    \E p \in Procs :
       /\ image[p] = TOR_ARM_REPLACE_TORRC
       /\ pc[p] = "exited"
       /\ status[p] = MaxTargetStatus
       /\ \E f \in files : f.by = p

(***************************************************************************)
(* C6: from its start on, a process keeps the real and effective uid and   *)
(* gid the OS gave it from the launcher file's set-user-ID and set-group-  *)
(* ID bits: the effective uid is the file owner's, the real uid is the     *)
(* invoker's; the target's work is done under that effective uid; and      *)
(* every process the OS started makes the execve call, whoever the user.   *)
(***************************************************************************)
C6_IdentityUnchanged ==
    /\ [](\A p \in Procs :
            /\ image[p] # "none" =>
                  /\ cred[p] = OSAssign(user[p])
                  /\ cred[p].euid = FileOwner
                  /\ cred[p].ruid = user[p]
            /\ pc[p] \in {"ret", "target", "exited"} => Called(p))
    /\ [](\A f \in files : f.owner = FileOwner)
    /\ [][\A p \in Procs : image[p] # "none" => cred'[p] = cred[p]]_vars

\* the target did its work as root for the invoker alice
C6_Witness ==
    \E p \in Procs :
       /\ user[p] = "alice"
       /\ Replaced(p)
       /\ cred[p].euid = "root" /\ cred[p].ruid = "alice"
       /\ \E f \in files : f.by = p /\ f.owner = "root"

C8_NoSideEffects ==
    /\ [][\A p \in Procs :
            (image[p] = LauncherPath /\ pc'[p] # pc[p]) =>
               /\ files' = files
               /\ streams' = streams
               /\ fs' = fs]_vars
    /\ [](\A p \in Procs :
            (fs # "ok" /\ pc[p] \in {"ret", "exited"}) =>
               /\ streams[p] = <<>>
               /\ files = {}
               /\ pc[p] = "exited" => status[p] # 0)

\* a launcher that ended because the target is missing or not executable
C8_Witness ==
    \E p \in Procs :
       /\ fs \in {"missing", "noexec"}
       /\ LauncherExited(p)
       /\ streams[p] = <<>>

(***************************************************************************)
(* C9: the life of an invocation is launcher -> target (the execve call    *)
(* succeeded) or launcher -> error (it failed), and nothing else: the call *)
(* is made exactly once, target and error are never left, and the launcher *)
(* never ends with status 0.                                               *)
(***************************************************************************)
Life(p) ==
    IF image[p] = "none" THEN "none"
    ELSE IF Replaced(p) THEN "target"
    ELSE IF pc[p] # "exited" THEN "launcher"
    ELSE IF status[p] # 0 THEN "error"
    ELSE "success"

C9_TwoStateMachine ==
    /\ [][\A p \in Procs :
            Life(p)' # Life(p) =>
               \/ Life(p) = "none" /\ Life(p)' = "launcher"
               \/ Life(p) = "launcher" /\ Life(p)' = "target"
                     /\ Lookup(TOR_ARM_REPLACE_TORRC) = "ok"
               \/ Life(p) = "launcher" /\ Life(p)' = "error"
                     /\ Lookup(TOR_ARM_REPLACE_TORRC) # "ok"]_vars
    /\ [](\A p \in Procs :
            /\ Len(execLog[p]) <= 1
            /\ Life(p) \in {"target", "error"} => Len(execLog[p]) = 1
            /\ Life(p) # "success")

\* an invocation in the error state after its single execve call
C9_Witness ==
    \E p \in Procs : Life(p) = "error" /\ Len(execLog[p]) = 1

(***************************************************************************)
(* C10: every process that runs the launcher eventually is the target or   *)
(* has ended with an error; a step changes the state of one invocation     *)
(* only, and whether an invocation ends as target or in error is decided   *)
(* by the target file alone, not by the other invocations.                 *)
(***************************************************************************)
Local(p) ==
    <<pc[p], image[p], user[p], args[p], env[p], cred[p], execLog[p], ret[p],
      targetArgv[p], targetEnvp[p], status[p], streams[p]>>

C10_LeavesLauncherState ==
    /\ \A p \in Procs :
          (Life(p) = "launcher") ~> (Life(p) \in {"target", "error"})
    /\ [][\A p, q \in Procs :
            p # q => (Local(p)' = Local(p) \/ Local(q)' = Local(q))]_vars
    /\ [](\A p \in Procs :
            Called(p) => (Replaced(p) <=> fs = "ok"))

\* one invocation still in the launcher while the other has left it
C10_Witness ==
    \E p, q \in Procs :
       /\ Life(p) = "launcher"
       /\ Life(q) \in {"target", "error"}

====
